---- MODULE Spec2Model ----
(***************************************************************************)
(* Model of june/new_implementation/Taylor_Andersons_work/                 *)
(* interaction_policies.py: the policy combinator InteractionPolicies,     *)
(* SocialDistancing, and MaskWearing with its per-person decision and its  *)
(* interception of interaction.calculate_transmission.                     *)
(*                                                                         *)
(* Probabilities and factors are Python floats, with the arithmetic of     *)
(* IEEE-754 binary64.  An absent attribute or a None argument is the       *)
(* empty tuple <<>>, a present one is <<value>>; string attributes use the *)
(* string NoAttr when absent.                                              *)
(***************************************************************************)
EXTENDS Integers, Sequences, FiniteSets, TLC

VARIABLES
    policies,                       \* the policy objects, fixed at construction
    original_transmission_func_saved, \* per policy: self._original_transmission_func_saved
    calculate_transmission,         \* interaction.calculate_transmission
    original_calculate_transmission,\* interaction._original_calculate_transmission (<<>> = no attribute)
    beta_reductions,                \* interaction.beta_reductions
    person,                         \* the person handed to apply_to_person
    window_state,                   \* per policy: "never" entered, "in" after a call inside the
                                    \* window, "out" after a call outside it since
    last                            \* the latest operation, its inputs and its outcome

vars == <<policies, original_transmission_func_saved, calculate_transmission,
          original_calculate_transmission, beta_reductions, person,
          window_state, last>>

---------------------------------------------------------------------------
\* Bounds of the model.

NMask == 2          \* MaskWearing instances sharing one interaction engine
MaxDate == 2        \* dates are 0..MaxDate
MaxPolicies == 3    \* length of the InteractionPolicies collection
RecursionLimit == 3 \* nested calls before the interpreter gives up

Dates == 0..MaxDate

---------------------------------------------------------------------------
\* Arithmetic on Python floats (IEEE-754 binary64, round to nearest, ties to
\* even).  A float is <<m, e>>, the value m * 2^e with m odd, or Zero; m is
\* a natural number of any size, a little-endian sequence of limbs below
\* LimbBase without leading zero limbs (<<>> is 0).  The values of the model
\* lie in [2^-200, 2^10] or are zero: subnormals, infinities and NaN do not
\* arise.

LimbBits == 14
LimbBase == 2^LimbBits
SignificandBits == 53

Limb(a, i) == IF i >= 1 /\ i <= Len(a) THEN a[i] ELSE 0

RECURSIVE Trim(_)
Trim(a) == IF a # <<>> /\ a[Len(a)] = 0 THEN Trim(SubSeq(a, 1, Len(a) - 1)) ELSE a

RECURSIVE FromInt(_)
FromInt(n) == IF n = 0 THEN <<>> ELSE <<n % LimbBase>> \o FromInt(n \div LimbBase)

RECURSIVE BigAddFrom(_, _, _, _)
BigAddFrom(a, b, i, carry) ==
    IF i > Len(a) /\ i > Len(b)
    THEN IF carry = 0 THEN <<>> ELSE <<carry>>
    ELSE LET t == Limb(a, i) + Limb(b, i) + carry
         IN  <<t % LimbBase>> \o BigAddFrom(a, b, i + 1, t \div LimbBase)

BigAdd(a, b) == BigAddFrom(a, b, 1, 0)

\* a - b for a >= b.
RECURSIVE BigSubFrom(_, _, _, _)
BigSubFrom(a, b, i, borrow) ==
    IF i > Len(a) THEN <<>>
    ELSE LET t == Limb(a, i) - Limb(b, i) - borrow
         IN  IF t < 0 THEN <<t + LimbBase>> \o BigSubFrom(a, b, i + 1, 1)
             ELSE <<t>> \o BigSubFrom(a, b, i + 1, 0)

BigSub(a, b) == Trim(BigSubFrom(a, b, 1, 0))

RECURSIVE BigLessFrom(_, _, _)
BigLessFrom(a, b, i) ==
    IF i = 0 THEN FALSE
    ELSE IF a[i] # b[i] THEN a[i] < b[i]
    ELSE BigLessFrom(a, b, i - 1)

BigLess(a, b) ==
    IF Len(a) # Len(b) THEN Len(a) < Len(b) ELSE BigLessFrom(a, b, Len(a))

\* The k-th coefficient of the product a * b, k from 0.
RECURSIVE Coefficient(_, _, _, _)
Coefficient(a, b, k, i) ==
    IF i > Len(a) \/ i > k + 1 THEN 0
    ELSE a[i] * Limb(b, k + 2 - i) + Coefficient(a, b, k, i + 1)

RECURSIVE BigMulFrom(_, _, _, _)
BigMulFrom(a, b, k, carry) ==
    IF k > Len(a) + Len(b) - 1
    THEN FromInt(carry)
    ELSE LET t == Coefficient(a, b, k, 1) + carry
         IN  <<t % LimbBase>> \o BigMulFrom(a, b, k + 1, t \div LimbBase)

BigMul(a, b) == IF a = <<>> \/ b = <<>> THEN <<>> ELSE Trim(BigMulFrom(a, b, 0, 0))

RECURSIVE IntBitLen(_)
IntBitLen(n) == IF n = 0 THEN 0 ELSE 1 + IntBitLen(n \div 2)

BitLen(a) == IF a = <<>> THEN 0 ELSE LimbBits * (Len(a) - 1) + IntBitLen(a[Len(a)])

Bit(a, i) == (Limb(a, i \div LimbBits + 1) \div 2^(i % LimbBits)) % 2

ShiftLeft(a, s) ==
    IF a = <<>> THEN <<>>
    ELSE [i \in 1..(s \div LimbBits) |-> 0] \o BigMul(a, <<2^(s % LimbBits)>>)

ShiftRight(a, s) ==
    LET q == s \div LimbBits
        r == s % LimbBits
    IN  IF q >= Len(a) THEN <<>>
        ELSE Trim([i \in 1..(Len(a) - q) |->
                     Limb(a, i + q) \div 2^r
                       + (Limb(a, i + q + 1) % 2^r) * 2^(LimbBits - r)])

RECURSIVE IntTrailingZeros(_)
IntTrailingZeros(n) == IF n % 2 = 1 THEN 0 ELSE 1 + IntTrailingZeros(n \div 2)

\* The number of trailing zero bits of a # 0, from limb i on.
RECURSIVE TrailingZeros(_, _)
TrailingZeros(a, i) ==
    IF a[i] = 0 THEN LimbBits + TrailingZeros(a, i + 1) ELSE IntTrailingZeros(a[i])

Zero == <<<<>>, 0>>

\* n * 2^e with the trailing zero bits of n moved into the exponent.
Canon(n, e) ==
    IF n = <<>> THEN Zero
    ELSE LET z == TrailingZeros(n, 1)
         IN  IF z = 0 THEN <<n, e>> ELSE <<ShiftRight(n, z), e + z>>

\* n * 2^e rounded to SignificandBits bits: to nearest, ties to even.
Round(n, e) ==
    LET s == BitLen(n) - SignificandBits
    IN  IF s <= 0 THEN Canon(n, e)
        ELSE LET q == ShiftRight(n, s)
                 up == /\ Bit(n, s - 1) = 1
                       /\ \/ Bit(q, 0) = 1
                          \/ \E i \in 0..(s - 2) : Bit(n, i) = 1
             IN  Canon(IF up THEN BigAdd(q, <<1>>) ELSE q, e + s)

\* x * y.  The product of two one-limb significands is odd and short of
\* SignificandBits bits: it is the result as it stands.
Mul(x, y) ==
    IF Len(x[1]) = 1 /\ Len(y[1]) = 1
    THEN <<FromInt(x[1][1] * y[1][1]), x[2] + y[2]>>
    ELSE Round(BigMul(x[1], y[1]), x[2] + y[2])

Min(a, b) == IF a < b THEN a ELSE b

\* The significand of x at exponent e <= x[2].
Aligned(x, e) == ShiftLeft(x[1], x[2] - e)

\* x + y
Add(x, y) ==
    LET e == Min(x[2], y[2]) IN Round(BigAdd(Aligned(x, e), Aligned(y, e)), e)

\* x - y, for x >= y.  Two one-limb significands at most LimbBits bits
\* apart are subtracted as integers: the difference is short of
\* SignificandBits bits.
Sub(x, y) ==
    LET e == Min(x[2], y[2])
    IN  IF Len(x[1]) = 1 /\ Len(y[1]) = 1
           /\ x[2] - e <= LimbBits /\ y[2] - e <= LimbBits
        THEN LET n == x[1][1] * 2^(x[2] - e) - y[1][1] * 2^(y[2] - e)
                 z == IntTrailingZeros(n)
             IN  IF n = 0 THEN Zero ELSE <<FromInt(n \div 2^z), e + z>>
        ELSE Round(BigSub(Aligned(x, e), Aligned(y, e)), e)

\* The position of the leading bit of x # Zero.
Magnitude(x) == BitLen(x[1]) + x[2]

\* x < y
Less(x, y) ==
    IF y = Zero THEN FALSE
    ELSE IF x = Zero THEN TRUE
    ELSE IF Magnitude(x) # Magnitude(y) THEN Magnitude(x) < Magnitude(y)
    ELSE LET e == Min(x[2], y[2]) IN BigLess(Aligned(x, e), Aligned(y, e))

\* Long division, bit by bit within one limb v of the dividend: r is the
\* remainder so far, q the quotient bits of this limb so far.  DivBit takes
\* the remainder r2 with bit b of v brought down.
RECURSIVE DivLimb(_, _, _, _, _)
RECURSIVE DivBit(_, _, _, _, _)
DivBit(r2, v, d, b, q) ==
    IF BigLess(r2, d) THEN DivLimb(r2, v, d, b - 1, 2 * q)
    ELSE DivLimb(BigSub(r2, d), v, d, b - 1, 2 * q + 1)

DivLimb(r, v, d, b, q) ==
    IF b < 0 THEN <<q, r>>
    ELSE DivBit(BigAdd(ShiftLeft(r, 1), FromInt((v \div 2^b) % 2)), v, d, b, q)

\* <<quotient, remainder>> of n / d, from limb i of n down; DivStep puts
\* the <<quotient limb, remainder>> of limb i in place.
RECURSIVE DivFrom(_, _, _, _, _)
RECURSIVE DivStep(_, _, _, _, _)
DivStep(n, d, i, step, q) ==
    IF step[1] >= 0 THEN DivFrom(n, d, i - 1, step[2], <<step[1]>> \o q) ELSE <<q, step[2]>>

DivFrom(n, d, i, r, q) ==
    IF i = 0 THEN <<Trim(q), r>>
    ELSE DivStep(n, d, i, DivLimb(r, n[i], d, LimbBits - 1, 0), q)

\* <<quotient, remainder>> of n / d.
Quotient(n, d) == DivFrom(n, d, Len(n), <<>>, <<>>)

\* The quotient qr[1] with a sticky bit for the remainder qr[2], times 2^e,
\* rounded.
RoundQuotient(qr, e) ==
    Round(BigAdd(ShiftLeft(qr[1], 1), IF qr[2] = <<>> THEN <<>> ELSE <<1>>), e)

\* x / y with the dividend shifted left by k bits.
DivShifted(x, y, k) ==
    RoundQuotient(Quotient(ShiftLeft(x[1], k), y[1]), x[2] - y[2] - k - 1)

\* x / y for y # Zero: the quotient to SignificandBits + 3 bits with a
\* sticky bit for the remainder, then rounded.
Div(x, y) ==
    IF x = Zero THEN Zero ELSE DivShifted(x, y, SignificandBits + 3 + BitLen(y[1]))

\* The float of the integer n >= 0.
FromInteger(n) == Canon(FromInt(n), 0)

\* The float a decimal literal n/d denotes: the nearest to the fraction.
Float(n, d) == Div(FromInteger(n), FromInteger(d))

One == FromInteger(1)

OneMinus(x) == Sub(One, x)

Half == Float(1, 2)
Quarter == Float(1, 4)
ThreeQuarters == Float(3, 4)
Tenth == Float(1, 10)
ThreeTenths == Float(3, 10)

---------------------------------------------------------------------------
\* Optional values.

None == <<>>
Some(x) == <<x>>
NoAttr == "<absent>"

Groups == {"school", "pub"}

---------------------------------------------------------------------------
\* Outcome of a call: a returned value or a raised exception.

Return(v) == [raised |-> FALSE, value |-> <<v>>]
Raise == [raised |-> TRUE, value |-> <<>>]

---------------------------------------------------------------------------
\* Construction.

\* SocialDistancing.__init__: beta_factors is None or a dict group -> factor.
SocialDistancing(start_time, end_time, beta_factors) ==
    [type |-> "SocialDistancing",
     start_time |-> start_time, end_time |-> end_time,
     beta_factors |-> beta_factors,
     compliance |-> One, beta_factor |-> One,
     beta_factor_male |-> One, beta_factor_female |-> One,
     mask_probabilities |-> None, behavioral_model |-> FALSE]

\* MaskWearing.__init__: the sex-specific factors fall back to beta_factor.
MaskWearing(start_time, end_time, compliance, beta_factor, beta_factor_male, beta_factor_female, mask_probabilities, behavioral_model) ==
    [type |-> "MaskWearing",
     start_time |-> start_time, end_time |-> end_time,
     beta_factors |-> None,
     compliance |-> compliance, beta_factor |-> beta_factor,
     beta_factor_male |->
        IF beta_factor_male # None THEN beta_factor_male[1] ELSE beta_factor,
     beta_factor_female |->
        IF beta_factor_female # None THEN beta_factor_female[1] ELSE beta_factor,
     mask_probabilities |-> mask_probabilities,
     behavioral_model |-> behavioral_model]

\* self.odds_ratios
odds_ratios ==
    [male |-> Float(437807, 1000000),
     white |-> Float(288743, 1000000),
     income_high |-> Float(2470556, 1000000),
     democratic |-> Float(2452319, 1000000),
     vulnerability_high |-> Float(3571090, 1000000),
     intercept |-> Float(4540417, 1000000)]

---------------------------------------------------------------------------
\* MaskWearing: compliance and factors.

\* Lines 92-111 for a person on whom the five tests of the code come out as
\* t[1], ..., t[5], in the order of the code.
Times(odds, applies, ratio) == IF applies THEN Mul(odds, ratio) ELSE odds

Odds(ratios, t) ==
    Times(Times(Times(Times(Times(ratios.intercept,
        t[1], ratios.male),
        t[2], ratios.white),
        t[3], ratios.income_high),
        t[4], ratios.democratic),
        t[5], ratios.vulnerability_high)

OddsToProbability(odds) == Div(odds, Add(One, odds))

Probability(t) == OddsToProbability(Odds(odds_ratios, t))

\* The function Probability on the outcomes S, as a table.
RECURSIVE Tabulate(_)
Tabulate(S) ==
    IF S = {} THEN <<>>
    ELSE LET t == CHOOSE x \in S : TRUE
         IN  (t :> Probability(t)) @@ Tabulate(S \ {t})

AdoptionProbability == Tabulate([1..5 -> BOOLEAN])

\* MaskWearing.calculate_mask_adoption_probability(person)
calculate_mask_adoption_probability(self, p) ==
    IF ~self.behavioral_model THEN self.compliance
    ELSE AdoptionProbability[
            << p.sex # NoAttr /\ p.sex = "m",
               p.ethnicity # NoAttr /\ p.ethnicity = "white",
               p.income # None /\ p.income[1] > 70000,
               p.political # NoAttr /\ p.political = "democratic",
               p.perceived_vulnerability # None /\ p.perceived_vulnerability[1] >>]

\* MaskWearing.apply(): iterating None.items() raises AttributeError.
MaskWearingApply(self) ==
    IF self.mask_probabilities = None THEN Raise
    ELSE LET mp == self.mask_probabilities[1]
         IN  Return(Some([key \in DOMAIN mp |->
                 OneMinus(Mul(Mul(mp[key], self.compliance),
                              OneMinus(self.beta_factor)))]))

\* SocialDistancing.apply(): returns self.beta_factors, None included
\* (the returned value is None or Some(dict), as for MaskWearing.apply).
SocialDistancingApply(self) == Return(self.beta_factors)

\* policy.apply(), dispatched on the policy's class.
PolicyApply(self) ==
    IF self.type = "MaskWearing" THEN MaskWearingApply(self)
    ELSE SocialDistancingApply(self)

\* A factor assignment without the default for a sex other than m or f.
PersonMaskFactorNoDefault(self, sex, wears_mask) ==
    IF wears_mask
    THEN IF sex = "m" THEN self.beta_factor_male
         ELSE IF sex = "f" THEN self.beta_factor_female
         ELSE One
    ELSE One

\* The mask factor apply_to_person assigns once wears_mask is decided.
PersonMaskFactor(self, sex, wears_mask) ==
    IF wears_mask
    THEN IF sex # NoAttr
         THEN IF sex = "m" THEN self.beta_factor_male
              ELSE IF sex = "f" THEN self.beta_factor_female
              ELSE self.beta_factor
         ELSE self.beta_factor
    ELSE One

\* MaskWearing.apply_to_person(person), u the value random.random() returns.
apply_to_person(self, p, u) ==
    LET wears == IF self.behavioral_model
                 THEN Less(u, calculate_mask_adoption_probability(self, p))
                 ELSE Less(u, self.compliance)
    IN  [p EXCEPT !.wears_mask = Some(wears),
                  !.mask_factor = Some(PersonMaskFactor(self, p.sex, wears))]

---------------------------------------------------------------------------
\* MaskWearing: interception of interaction.calculate_transmission.

\* The values interaction.calculate_transmission can hold: the engine's own
\* method, or the wrapper installed by the policy at index i.
Original == <<"original">>
Wrapper(i) == <<"wrapper", i>>

\* The engine's own calculate_transmission(susceptible, infected, group,
\* delta_time): some fixed probability per contact.
OriginalTransmission(susceptible, spec) ==
    IF spec = "school" THEN Half ELSE Quarter

\* A wrapper that ignores the susceptible's sex.
SexBetaFactorIgnoringSex(self, susceptible) == self.beta_factor

\* The sex-specific or default beta factor of the susceptible.
SexBetaFactor(self, susceptible) ==
    IF susceptible.sex # NoAttr
    THEN IF susceptible.sex = "m" THEN self.beta_factor_male
         ELSE IF susceptible.sex = "f" THEN self.beta_factor_female
         ELSE self.beta_factor
    ELSE self.beta_factor

\* The factor gender_specific_transmission_wrapper multiplies in.
\* `group.spec in None` raises TypeError.
WrapperFactor(self, susceptible, spec) ==
    IF self.behavioral_model
    THEN IF susceptible.wears_mask # None /\ susceptible.wears_mask[1]
         THEN Return(SexBetaFactor(self, susceptible))
         ELSE Return(One)
    ELSE IF spec = NoAttr THEN Return(One)
         ELSE IF self.mask_probabilities = None THEN Raise
         ELSE LET mp == self.mask_probabilities[1]
              IN  IF spec \in DOMAIN mp
                  THEN Return(OneMinus(Mul(Mul(mp[spec], self.compliance),
                                  OneMinus(SexBetaFactor(self, susceptible)))))
                  ELSE Return(One)

\* A call f(susceptible, infected, group, delta_time) of a value of
\* interaction.calculate_transmission.  A wrapper reads
\* interaction._original_calculate_transmission (slot) when it is called.
RECURSIVE Invoke(_, _, _, _, _)
Invoke(f, slot, susceptible, spec, depth) ==
    IF f = Original THEN Return(OriginalTransmission(susceptible, spec))
    ELSE IF depth = 0 \/ slot = None THEN Raise
    ELSE LET transmission_prob == Invoke(slot[1], slot, susceptible, spec, depth - 1)
             factor == WrapperFactor(policies[f[2]], susceptible, spec)
         IN  IF transmission_prob.raised \/ factor.raised THEN Raise
             ELSE Return(Mul(transmission_prob.value[1], factor.value[1]))

\* self.start_time <= date <= self.end_time
InWindow(self, date) == self.start_time <= date /\ date <= self.end_time

\* A save that overwrites what another instance saved.
SaveOriginalOverwriting(slot, current) == Some(current)

\* Lines 170-175: the slot after the save on entering the window.
SaveOriginal(slot, current) == IF slot # None THEN slot ELSE Some(current)

\* Lines 227-229: does the call outside the window restore?
RestoreGuard(saved, slot) == saved /\ slot # None

---------------------------------------------------------------------------
\* InteractionPolicies: the combinator.

\* PolicyCollection.get_active(date): the policies active at date, in order.
get_active(date) == SelectSeq(policies, LAMBDA policy : InWindow(policy, date))

\* A fold that assigns instead of multiplying.
MultiplyInAssigning(reductions, dict) ==
    [group \in DOMAIN reductions \cup DOMAIN dict |->
        IF group \in DOMAIN dict THEN dict[group] ELSE reductions[group]]

\* Lines 18-19: beta_reductions[group] *= beta_reductions_dict[group], for
\* every key of the dict, on a defaultdict whose missing entries are 1.0.
MultiplyIn(reductions, dict) ==
    [group \in DOMAIN reductions \cup DOMAIN dict |->
        IF group \in DOMAIN dict
        THEN Mul(IF group \in DOMAIN reductions THEN reductions[group] ELSE One,
                 dict[group])
        ELSE reductions[group]]

\* Lines 16-19 from the k-th active policy on.  policy.apply() may raise, and
\* `for group in None` raises TypeError.
RECURSIVE FoldPolicies(_, _, _)
FoldPolicies(active, k, reductions) ==
    IF k > Len(active) THEN Return(reductions)
    ELSE LET beta_reductions_dict == PolicyApply(active[k])
         IN  IF beta_reductions_dict.raised THEN Raise
             ELSE IF beta_reductions_dict.value[1] = None THEN Raise
             ELSE FoldPolicies(active, k + 1,
                      MultiplyIn(reductions, beta_reductions_dict.value[1][1]))

\* A fold that starts from the engine's current mapping.
KeepReductions(previous) == previous

\* Line 15: beta_reductions = defaultdict(lambda: 1.0)
FreshReductions(previous) == <<>>

\* interaction.beta_reductions[group] as the engine reads it (1.0 by default).
Reduction(reductions, group) ==
    IF group \in DOMAIN reductions THEN reductions[group] ELSE One

---------------------------------------------------------------------------
\* Inputs.

\* MaskWearing configurations: compliance, beta_factor, beta_factor_male,
\* beta_factor_female, mask_probabilities, behavioral_model.
ProfileList ==
    << <<Half, Half, Some(Quarter), None, None, TRUE>>,
       <<Half, Half, None, Some(ThreeQuarters), Some([g \in {"school"} |-> Half]), FALSE>>,
       <<One, Half, None, None, None, FALSE>> >>

Profiles == {ProfileList[k] : k \in DOMAIN ProfileList}

MaskOf(w, c) == MaskWearing(w[1], w[2], c[1], c[2], c[3], c[4], c[5], c[6])

BetaFactorChoices ==
    { None,
      Some([g \in {"school"} |-> Tenth]),
      Some([g \in Groups |-> IF g = "school" THEN ThreeTenths ELSE Half]) }

\* Values of random.random().
Draws == {Zero, Float(2, 5), Half, Float(9, 10)}

Sexes == {NoAttr, "m", "f", "x"}

Persons ==
    [sex : Sexes,
     ethnicity : {NoAttr, "white", "asian"},
     income : {None, Some(50000), Some(80000)},
     political : {NoAttr, "democratic", "republican"},
     perceived_vulnerability : {None, Some(TRUE), Some(FALSE)},
     wears_mask : {None},
     mask_factor : {None}]

\* The susceptible of a transmission call: sex and wears_mask vary.
Susceptibles ==
    [sex : Sexes,
     wears_mask : {None, Some(TRUE), Some(FALSE)}]

NoPerson == [sex |-> NoAttr, wears_mask |-> None]

Specs == {NoAttr} \cup Groups

---------------------------------------------------------------------------
\* The state machine.

NoOp ==
    [op |-> "none", self |-> 0, date |-> 0, u |-> One, susceptible |-> NoPerson,
     spec |-> NoAttr, result |-> Return(None), was_saved |-> FALSE,
     previous |-> <<>>]

MaskIds == 1..Len(policies)

\* The engine before any policy touched it, and the policies as constructed.
InitEngine ==
    /\ original_transmission_func_saved = [i \in 1..Len(policies) |-> FALSE]
    /\ calculate_transmission = Original
    /\ original_calculate_transmission = None
    /\ window_state = [i \in 1..Len(policies) |-> "never"]
    /\ last = NoOp

\* MaskWearing.apply_to_interaction(date, interaction) on policies[i].
ApplyToInteraction(i, date) ==
    LET self == policies[i]
        saved == original_transmission_func_saved[i]
    IN
    /\ IF InWindow(self, date)
       THEN /\ window_state' = [window_state EXCEPT ![i] = "in"]
            /\ IF ~saved
               THEN /\ original_calculate_transmission' =
                          SaveOriginal(original_calculate_transmission,
                                       calculate_transmission)
                    /\ original_transmission_func_saved' =
                          [original_transmission_func_saved EXCEPT ![i] = TRUE]
                    /\ calculate_transmission' = Wrapper(i)
               ELSE UNCHANGED <<original_calculate_transmission,
                                original_transmission_func_saved,
                                calculate_transmission>>
       ELSE /\ window_state' =
                 [window_state EXCEPT ![i] = IF @ = "never" THEN "never" ELSE "out"]
            /\ IF RestoreGuard(saved, original_calculate_transmission)
               THEN /\ calculate_transmission' = original_calculate_transmission[1]
                    /\ original_transmission_func_saved' =
                          [original_transmission_func_saved EXCEPT ![i] = FALSE]
                    /\ UNCHANGED original_calculate_transmission
               ELSE UNCHANGED <<original_calculate_transmission,
                                original_transmission_func_saved,
                                calculate_transmission>>
    /\ last' = [NoOp EXCEPT !.op = "apply_to_interaction", !.self = i,
                            !.date = date, !.was_saved = saved]
    /\ UNCHANGED <<policies, beta_reductions, person>>

\* interaction.calculate_transmission(susceptible, infected, group, delta_time)
CallTransmission(susceptible, spec) ==
    /\ last' = [NoOp EXCEPT !.op = "calculate_transmission",
                            !.susceptible = susceptible, !.spec = spec,
                            !.result = Invoke(calculate_transmission,
                                              original_calculate_transmission,
                                              susceptible, spec, RecursionLimit)]
    /\ UNCHANGED <<policies, original_transmission_func_saved,
                   calculate_transmission, original_calculate_transmission,
                   beta_reductions, person, window_state>>

\* policies[i].apply(), called directly.
CallApply(i) ==
    /\ last' = [NoOp EXCEPT !.op = "apply", !.self = i,
                            !.result = PolicyApply(policies[i])]
    /\ UNCHANGED <<policies, original_transmission_func_saved,
                   calculate_transmission, original_calculate_transmission,
                   beta_reductions, person, window_state>>

\* MaskWearing.apply_to_person(person) on policies[i], random.random() = u.
ApplyToPerson(i, u) ==
    /\ person' = apply_to_person(policies[i], person, u)
    /\ last' = [NoOp EXCEPT !.op = "apply_to_person", !.self = i, !.u = u]
    /\ UNCHANGED <<policies, original_transmission_func_saved,
                   calculate_transmission, original_calculate_transmission,
                   beta_reductions, window_state>>

\* InteractionPolicies.apply(date, interaction): line 20 is reached only if
\* nothing raised before it.
InteractionPoliciesApply(date) ==
    LET folded == FoldPolicies(get_active(date), 1, FreshReductions(beta_reductions))
    IN
    /\ beta_reductions' = IF folded.raised THEN beta_reductions ELSE folded.value[1]
    /\ last' = [NoOp EXCEPT !.op = "InteractionPolicies.apply", !.date = date,
                            !.result = IF folded.raised THEN Raise ELSE Return(None),
                            !.previous = beta_reductions]
    /\ UNCHANGED <<policies, original_transmission_func_saved,
                   calculate_transmission, original_calculate_transmission,
                   person, window_state>>

---------------------------------------------------------------------------
\* Specification of the interception: NMask MaskWearing instances share one
\* interaction engine.

\* Overlapping windows that close at different dates: odd instances are
\* active on date 1 only, even ones from date 1 to the last date.
MaskWindow(i) == IF i % 2 = 1 THEN <<1, 1>> ELSE <<1, MaxDate>>

Init ==
    /\ \E c \in [1..NMask -> Profiles] :
          policies = [i \in 1..NMask |-> MaskOf(MaskWindow(i), c[i])]
    /\ InitEngine
    /\ beta_reductions = <<>>
    /\ person = NoPerson

Next ==
    \/ \E i \in MaskIds, date \in Dates : ApplyToInteraction(i, date)
    \/ \E susceptible \in Susceptibles, spec \in Specs :
          CallTransmission(susceptible, spec)
    \/ \E i \in MaskIds : CallApply(i)

Spec == Init /\ [][Next]_vars

\* Specification of the per-person decision: one MaskWearing instance of each
\* configuration decides, in any order and repeatedly, for one person.

FullWindow == <<0, MaxDate>>

InitPerson ==
    /\ policies = [i \in DOMAIN ProfileList |-> MaskOf(FullWindow, ProfileList[i])]
    /\ InitEngine
    /\ beta_reductions = <<>>
    /\ person \in Persons

NextPerson ==
    \E i \in MaskIds, u \in Draws : ApplyToPerson(i, u)

SpecPerson == InitPerson /\ [][NextPerson]_vars

\* Specification of the combinator: a collection of up to MaxPolicies
\* interaction policies of any kind and configuration.

\* Odd positions are active on dates 0 and 1, even ones from date 1 to the
\* last date: the active policies are the odd ones, all, or the even ones.
PolicyWindow(i) == IF i % 2 = 1 THEN <<0, 1>> ELSE <<1, MaxDate>>

\* The kinds of policy and their configurations.
PolicyConfigs ==
    { <<"MaskWearing", c>> : c \in Profiles }
        \cup { <<"SocialDistancing", b>> : b \in BetaFactorChoices }

PolicyOf(w, config) ==
    IF config[1] = "MaskWearing" THEN MaskOf(w, config[2])
    ELSE SocialDistancing(w[1], w[2], config[2])

StaleReductions == [g \in {"pub"} |-> Quarter]

InitPolicies ==
    /\ \E n \in 0..MaxPolicies :
          \E c \in [1..n -> PolicyConfigs] :
              policies = [i \in 1..n |-> PolicyOf(PolicyWindow(i), c[i])]
    /\ InitEngine
    /\ beta_reductions \in {<<>>, StaleReductions}
    /\ person = NoPerson

NextPolicies ==
    \E date \in Dates : InteractionPoliciesApply(date)

SpecPolicies == InitPolicies /\ [][NextPolicies]_vars

---------------------------------------------------------------------------
\* Properties of the interception (specification Spec).

\* The instance's latest apply_to_interaction call was inside its window.
Inside(i) == window_state[i] = "in"

\* The factor the specification gives instance `self` for a contact: the
\* susceptible's sex-specific factor if they wear a mask (behavioural model),
\* or 1 - p_g * compliance * (1 - factor) for a group with a mask prevalence.
SpecSexFactor(self, sex) ==
    CASE sex = "m" -> self.beta_factor_male
      [] sex = "f" -> self.beta_factor_female
      [] OTHER -> self.beta_factor

SpecFactor(self, susceptible, spec) ==
    IF self.behavioral_model
    THEN IF susceptible.wears_mask = Some(TRUE)
         THEN SpecSexFactor(self, susceptible.sex) ELSE One
    ELSE IF self.mask_probabilities # None
              /\ spec \in DOMAIN self.mask_probabilities[1]
         THEN LET p == self.mask_probabilities[1][spec]
                  f == SpecSexFactor(self, susceptible.sex)
              IN  Sub(One, Mul(Mul(p, self.compliance), Sub(One, f)))
         ELSE One

\* The instance's wrapper can evaluate its factor for every contact: it runs
\* the behavioural model or has a mask_probabilities mapping.
Configured(self) == self.behavioral_model \/ self.mask_probabilities # None

\* The orderings of a set of indices.
Orderings(ks) ==
    {o \in [1..Cardinality(ks) -> ks] :
        \A a, b \in 1..Cardinality(ks) : a # b => o[a] # o[b]}

\* base times the factors of the instances order[1..n], in that order.
RECURSIVE StackedProduct(_, _, _, _, _)
StackedProduct(base, order, n, susceptible, spec) ==
    IF n = 0 THEN base
    ELSE Mul(StackedProduct(base, order, n - 1, susceptible, spec),
             SpecFactor(policies[order[n]], susceptible, spec))

\* The instances whose factor a call of f multiplies in.
RECURSIVE AppliedBy(_, _, _)
AppliedBy(f, slot, depth) ==
    IF f = Original \/ depth = 0 THEN {}
    ELSE {f[2]} \cup (IF slot = None THEN {} ELSE AppliedBy(slot[1], slot, depth - 1))

\* C1: once every instance that was activated has been called with a date
\* outside its window, interaction.calculate_transmission is the engine's
\* original function; and the saved "original" is never a wrapper.
C1_Restoration ==
    /\ (\A i \in MaskIds : ~Inside(i)) => calculate_transmission = Original
    /\ original_calculate_transmission \in {None, Some(Original)}

\* Two instances with overlapping activity were both activated and both left.
C1_Witness ==
    /\ \A i \in MaskIds : window_state[i] = "out"
    /\ last.op = "apply_to_interaction" /\ last.was_saved
    /\ calculate_transmission = Original

\* C2: with every instance activated (in any order) and none left since, a
\* transmission call returns the original's result times every instance's
\* factor, the factors multiplied in one after the other in some order.
C2_StackingNests ==
    ( /\ last.op = "calculate_transmission"
      /\ \A i \in MaskIds : Inside(i) /\ Configured(policies[i]) )
    => /\ ~last.result.raised
       /\ \E order \in Orderings(MaskIds) :
             last.result.value[1] =
                StackedProduct(OriginalTransmission(last.susceptible, last.spec),
                               order, Len(order), last.susceptible, last.spec)

\* C3: with one instance inside its window (entered once or repeatedly) and
\* no other instance ever activated, a transmission call returns the
\* original's result times that instance's factor, once; a repeated
\* in-window call leaves the single wrapper over the original in place.
C3_SingleInstanceFactor ==
    \A i \in MaskIds :
        ( /\ Inside(i)
          /\ \A j \in MaskIds \ {i} : window_state[j] = "never" )
        => /\ calculate_transmission = Wrapper(i)
           /\ AppliedBy(calculate_transmission, original_calculate_transmission,
                        RecursionLimit) = {i}
           /\ ( last.op = "calculate_transmission" /\ Configured(policies[i]) )
              => /\ ~last.result.raised
                 /\ last.result.value[1] =
                      Mul(OriginalTransmission(last.susceptible, last.spec),
                          SpecFactor(policies[i], last.susceptible, last.spec))

\* A call with a single instance active whose sex-specific factor differs
\* from the default one.
C3_Witness ==
    \E i \in MaskIds :
        /\ last.op = "calculate_transmission"
        /\ Inside(i)
        /\ \A j \in MaskIds \ {i} : window_state[j] = "never"
        /\ ~last.result.raised
        /\ SpecFactor(policies[i], last.susceptible, last.spec)
              \notin {One, policies[i].beta_factor}
        /\ last.result.value[1] # OriginalTransmission(last.susceptible, last.spec)

\* C7: no error propagates out of MaskWearing.apply(), apply_to_interaction()
\* or a call of the installed wrapper.
C7_NoErrorPropagates ==
    last.op \in {"apply", "apply_to_interaction", "calculate_transmission"}
        => ~last.result.raised

\* C9: whenever an instance's saved flag is set, a call of
\* interaction.calculate_transmission applies that instance's factor.
C9_ActiveMeansWrapped ==
    \A i \in MaskIds :
        original_transmission_func_saved[i]
            => i \in AppliedBy(calculate_transmission,
                               original_calculate_transmission, RecursionLimit)

\* C10: after a call outside the window of an instance that was active, its
\* flag is cleared and the engine carries no saved function.
C10_SavedStateCleared ==
    ( /\ last.op = "apply_to_interaction"
      /\ last.was_saved
      /\ ~InWindow(policies[last.self], last.date) )
    => /\ ~original_transmission_func_saved[last.self]
       /\ original_calculate_transmission = None

---------------------------------------------------------------------------
\* Properties of the combinator (specification SpecPolicies).

\* The indices of the policies whose window contains the date.
ActiveAt(date) ==
    {k \in 1..Len(policies) :
        policies[k].start_time <= date /\ date <= policies[k].end_time}

\* The group -> factor mapping the specification gives a policy: the
\* configured beta_factors of SocialDistancing, and for MaskWearing
\* 1 - p_g * compliance * (1 - beta_factor) per group with a prevalence p_g.
HasMapping(policy) ==
    IF policy.type = "SocialDistancing" THEN policy.beta_factors # None
    ELSE policy.mask_probabilities # None

SpecKeys(policy) ==
    IF policy.type = "SocialDistancing" THEN DOMAIN policy.beta_factors[1]
    ELSE DOMAIN policy.mask_probabilities[1]

SpecPolicyFactor(policy, group) ==
    IF group \notin SpecKeys(policy) THEN One
    ELSE IF policy.type = "SocialDistancing" THEN policy.beta_factors[1][group]
    ELSE LET p == policy.mask_probabilities[1][group]
             c == policy.compliance
             b == policy.beta_factor
         IN  Sub(One, Mul(Mul(p, c), Sub(One, b)))

\* 1.0 times the factors for group of the policies order[1..n], one after
\* the other in that order.
RECURSIVE ProductInOrder(_, _, _)
ProductInOrder(order, n, group) ==
    IF n = 0 THEN One
    ELSE Mul(ProductInOrder(order, n - 1, group),
             SpecPolicyFactor(policies[order[n]], group))

\* The indices ks in the order of the collection.
InOrder(ks) == SelectSeq([k \in 1..Len(policies) |-> k], LAMBDA k : k \in ks)

\* The product over the policies ks, taken in the order of the collection.
SpecProduct(ks, group) == ProductInOrder(InOrder(ks), Cardinality(ks), group)

\* The policies among ks whose mapping has a factor for group.
Carriers(ks, group) == {k \in ks : group \in SpecKeys(policies[k])}

\* C4 as claimed: after InteractionPolicies.apply at a date whose active
\* policies all produce a mapping, beta_reductions[g] is, for every group g,
\* the product of the factors for g of the active policies that have one
\* (the others count as 1.0), and the same whatever the order of the
\* policies; with no active policy every group reads 1.0.
C4_ProductOfActive ==
    ( /\ last.op = "InteractionPolicies.apply"
      /\ \A k \in ActiveAt(last.date) : HasMapping(policies[k]) )
    => /\ ~last.result.raised
       /\ \A group \in Groups :
             \A order \in Orderings(Carriers(ActiveAt(last.date), group)) :
                Reduction(beta_reductions, group) =
                    ProductInOrder(order, Len(order), group)

\* C4 as amended: beta_reductions[g] is the floating-point product of the
\* active policies' factors for g (1.0 where a policy lacks g) taken in the
\* order of the collection, and any reordering gives the same value when at
\* most two active policies have a factor for g; with no active policy every
\* group reads 1.0.
C4_ProductInCollectionOrder ==
    ( /\ last.op = "InteractionPolicies.apply"
      /\ \A k \in ActiveAt(last.date) : HasMapping(policies[k]) )
    => /\ ~last.result.raised
       /\ \A group \in Groups :
             /\ Reduction(beta_reductions, group) =
                    SpecProduct(ActiveAt(last.date), group)
             /\ Cardinality(Carriers(ActiveAt(last.date), group)) <= 2
                   => \A order \in Orderings(Carriers(ActiveAt(last.date), group)) :
                         Reduction(beta_reductions, group) =
                             ProductInOrder(order, Len(order), group)

\* Three active policies of both kinds act on the same group while a group
\* only one of them names keeps that policy's factor; the result is the
\* product in the order of the collection, and another order of the same
\* three factors gives another value.
C4_Witness ==
    /\ last.op = "InteractionPolicies.apply"
    /\ ~last.result.raised
    /\ Cardinality(Carriers(ActiveAt(last.date), "school")) = 3
    /\ Cardinality(Carriers(ActiveAt(last.date), "pub")) = 1
    /\ \E j, k \in ActiveAt(last.date) : policies[j].type # policies[k].type
    /\ Reduction(beta_reductions, "school") = SpecProduct(ActiveAt(last.date), "school")
    /\ Reduction(beta_reductions, "pub") = Half
    /\ \E order \in Orderings(ActiveAt(last.date)) :
          ProductInOrder(order, Len(order), "school") # Reduction(beta_reductions, "school")

\* C5: each InteractionPolicies.apply whose active policies all produce a
\* mapping overwrites beta_reductions: its keys are exactly the groups of the
\* policies active at that date and its values their product; nothing of the
\* mapping that was there before remains.
C5_FullyOverwritten ==
    ( /\ last.op = "InteractionPolicies.apply"
      /\ \A k \in ActiveAt(last.date) : HasMapping(policies[k]) )
    => beta_reductions =
          [group \in UNION {SpecKeys(policies[k]) : k \in ActiveAt(last.date)} |->
              SpecProduct(ActiveAt(last.date), group)]

\* An apply at a date where every window has closed, after an apply that
\* had left reductions behind.
C5_Witness ==
    /\ last.op = "InteractionPolicies.apply"
    /\ Len(policies) > 0
    /\ ActiveAt(last.date) = {}
    /\ last.previous \notin {<<>>, StaleReductions}
    /\ beta_reductions = <<>>

\* C6: with an active SocialDistancing policy built without beta_factors,
\* InteractionPolicies.apply does not raise and writes the fold of the
\* remaining active policies.
C6_MissingMappingIsNoEffect ==
    ( /\ last.op = "InteractionPolicies.apply"
      /\ \E k \in ActiveAt(last.date) :
            policies[k].type = "SocialDistancing" /\ policies[k].beta_factors = None
      /\ \A k \in ActiveAt(last.date) :
            policies[k].type = "MaskWearing" => HasMapping(policies[k]) )
    => /\ ~last.result.raised
       /\ \A group \in Groups :
             Reduction(beta_reductions, group) =
                SpecProduct({k \in ActiveAt(last.date) : HasMapping(policies[k])}, group)

---------------------------------------------------------------------------
\* Properties of the per-person decision (specification SpecPerson).

\* C8: apply_to_person sets wears_mask to (u < adoption probability) under
\* the behavioural model and to (u < compliance) otherwise, and mask_factor
\* to 1.0 if not wearing, else to the male, female or default factor by sex;
\* it writes these two attributes only and no state of the policy, and the
\* outcome does not depend on an earlier decision.
C8_PersonDecision ==
    [][ last'.op = "apply_to_person" =>
          LET self == policies[last'.self]
              threshold == IF self.behavioral_model
                           THEN calculate_mask_adoption_probability(self, person)
                           ELSE self.compliance
              wears == Less(last'.u, threshold)
          IN  /\ person' =
                   [sex |-> person.sex, ethnicity |-> person.ethnicity,
                    income |-> person.income, political |-> person.political,
                    perceived_vulnerability |-> person.perceived_vulnerability,
                    wears_mask |-> Some(wears),
                    mask_factor |->
                       Some(IF wears THEN SpecSexFactor(self, person.sex) ELSE One)]
              /\ UNCHANGED <<policies, original_transmission_func_saved,
                             calculate_transmission,
                             original_calculate_transmission, beta_reductions>>
      ]_vars

\* A man adopts the mask under the behavioural model and gets the
\* male-specific factor, which differs from the default one.
C8_Witness ==
    /\ last.op = "apply_to_person"
    /\ policies[last.self].behavioral_model
    /\ person.sex = "m"
    /\ person.wears_mask = Some(TRUE)
    /\ person.mask_factor = Some(policies[last.self].beta_factor_male)
    /\ policies[last.self].beta_factor_male # policies[last.self].beta_factor

====
